---- MODULE Spec2Model ----
(***************************************************************************)
(* Build-time generators of the systemd tree:                              *)
(*   src/basic/missing_syscalls.py  syscall table loader + header emitter  *)
(*   tools/make-man-rules.py        man page rule generator                *)
(*   tools/sync-docs.py             navigation injection into HTML         *)
(* and the C preprocessor semantics of the header the first one emits.     *)
(***************************************************************************)
EXTENDS Integers, Sequences, FiniteSets, TLC

VARIABLES
    \* parse_syscall_table applied to one file
    lines,      \* the lines of the file, each a sequence of whitespace-separated tokens
    ppc,        \* "call" | "returned" | "raised"
    table,      \* the dict returned by parse_syscall_table
    \* missing_syscalls.py __main__
    arch_files, \* sys.argv[2:], each file with its name and its lines
    pc,         \* "parse" | "print_defs" | "print_def" | "done" | "failed"
    exc,        \* the exception that ended the run, "" if none
    nfile,      \* the number of files parse_syscall_tables has consumed
    tables,     \* the dict of parse_syscall_tables, in insertion order
    nsys,       \* the number of symbols print_syscall_defs has printed
    out,        \* the text written to the output file, one entry per print()
    \* a compilation that includes the generated header
    hdr,        \* the generated header, one entry per print()
    macros0,    \* the macros of the compiler and the C library before the header
    macros,     \* the macros defined so far: <<name, symbol>> -> value
    diag,       \* the diagnostics issued so far
    cpc,        \* "arch_check" | "block" | "done"
    nblk,       \* the number of symbol blocks processed
    \* make-man-rules.py create_rules
    xml_files,  \* the parsed documents of sys.argv[1:]
    rules,      \* {conditional => {alias-name => source-name}}
    nxml,       \* the number of files add_rules has been called for
    mpc,        \* "run" | "returned" | "raised"
    mexc,       \* the exception create_rules re-raised, "" if none
    \* sync-docs.py process_file on one file
    contents0,  \* the file before the first call
    contents,   \* the file
    nruns,      \* the number of calls of process_file
    nwrites,    \* the number of times the file was written
    dpc         \* "run" | "raised"

parseVars == <<lines, ppc, table>>
genVars == <<arch_files, pc, exc, nfile, tables, nsys, out>>
cppVars == <<hdr, macros0, macros, diag, cpc, nblk>>

manVars == <<xml_files, rules, nxml, mpc, mexc>>
docsVars == <<contents0, contents, nruns, nwrites, dpc>>

vars ==
    <<lines, ppc, table, arch_files, pc, exc, nfile, tables, nsys, out,
      hdr, macros0, macros, diag, cpc, nblk, xml_files, rules, nxml, mpc, mexc,
      contents0, contents, nruns, nwrites, dpc>>

(***************************************************************************)
(* Text: tokens are strings; Spell gives the characters of the tokens the  *)
(* model reads, so that int() and str() are computed on characters.        *)
(***************************************************************************)
Digits == {"0", "1", "2", "3", "4", "5", "6", "7", "8", "9"}

DigitVal ==
    ("0" :> 0) @@ ("1" :> 1) @@ ("2" :> 2) @@ ("3" :> 3) @@ ("4" :> 4) @@
    ("5" :> 5) @@ ("6" :> 6) @@ ("7" :> 7) @@ ("8" :> 8) @@ ("9" :> 9)

DigitChar == <<"0", "1", "2", "3", "4", "5", "6", "7", "8", "9">>

\* the number tokens that occur in the tables of the model
NumTokens == {"10", "20", "-1", "7", "010", "+5", "1_0", "0x10", "1x", "-"}

\* the symbol tokens that occur in the tables of the model
SymTokens == {"openat2", "close_range", "bogus"}

Spell ==
    ("10" :> <<"1", "0">>) @@ ("20" :> <<"2", "0">>) @@ ("-1" :> <<"-", "1">>) @@
    ("7" :> <<"7">>) @@ ("010" :> <<"0", "1", "0">>) @@ ("+5" :> <<"+", "5">>) @@
    ("1_0" :> <<"1", "_", "0">>) @@ ("0x10" :> <<"0", "x", "1", "0">>) @@
    ("1x" :> <<"1", "x">>) @@ ("-" :> <<"-">>) @@
    ("openat2" :> <<"o", "p", "e", "n", "a", "t", "2">>) @@
    ("close_range" :> <<"c", "l", "o", "s", "e", "_", "r", "a", "n", "g", "e">>) @@
    ("bogus" :> <<"b", "o", "g", "u", "s">>)

\* int(): an optional sign, then digits, single underscores allowed between digits
Unsigned(cs) ==
    IF cs # <<>> /\ Head(cs) \in {"+", "-"} THEN Tail(cs) ELSE cs

IsIntChars(cs) ==
    LET b == Unsigned(cs) IN
    /\ b # <<>>
    /\ \A i \in 1..Len(b) :
         \/ b[i] \in Digits
         \/ b[i] = "_" /\ i > 1 /\ i < Len(b) /\ b[i-1] \in Digits /\ b[i+1] \in Digits

RECURSIVE DigitsValue(_, _)
DigitsValue(b, acc) ==
    IF b = <<>> THEN acc
    ELSE IF Head(b) = "_" THEN DigitsValue(Tail(b), acc)
    ELSE DigitsValue(Tail(b), 10 * acc + DigitVal[Head(b)])

IntOfChars(cs) ==
    IF Head(cs) = "-" THEN 0 - DigitsValue(Unsigned(cs), 0) ELSE DigitsValue(Unsigned(cs), 0)

\* str() of an int, as str.format renders a number
RECURSIVE DecStr(_)
DecStr(n) ==
    IF n < 0 THEN <<"-">> \o DecStr(0 - n)
    ELSE IF n < 10 THEN <<DigitChar[n + 1]>>
    ELSE DecStr(n \div 10) \o <<DigitChar[(n % 10) + 1]>>

(***************************************************************************)
(* missing_syscalls.py: the loader                                         *)
(***************************************************************************)
EmptyTable == [s \in {} |-> 0]

PutKeepFirst(t, k, v) ==
    [x \in DOMAIN t \cup {k} |-> IF x \in DOMAIN t THEN t[x] ELSE v]

Put(t, k, v) == [x \in DOMAIN t \cup {k} |-> IF x = k THEN v ELSE t[x]]

\* the generator body of parse_syscall_table, consumed by dict(): pairs are
\* yielded in line order, a later pair replaces an earlier one with the same key,
\* and int() raising ValueError ends the iteration with no dict built
RECURSIVE ParseLines(_, _, _)
ParseLinesIgnoringBadInt(ls, i, acc) ==
    IF i > Len(ls) THEN [ok |-> TRUE, table |-> acc]
    ELSE LET items == ls[i] IN
         IF Len(items) >= 2 /\ IsIntChars(Spell[items[2]])
         THEN ParseLines(ls, i + 1, Put(acc, items[1], IntOfChars(Spell[items[2]])))
         ELSE ParseLines(ls, i + 1, acc)

ParseLines(ls, i, acc) ==
    IF i > Len(ls) THEN [ok |-> TRUE, table |-> acc]
    ELSE LET items == ls[i] IN
         IF Len(items) >= 2
         THEN IF IsIntChars(Spell[items[2]])
              THEN ParseLines(ls, i + 1, Put(acc, items[1], IntOfChars(Spell[items[2]])))
              ELSE [ok |-> FALSE, table |-> EmptyTable]
         ELSE ParseLines(ls, i + 1, acc)

parse_syscall_table(ls) == ParseLines(ls, 1, EmptyTable)

(***************************************************************************)
(* missing_syscalls.py: the templates.  A template line is a record:       *)
(*   k     the directive: if elif else endif define undef error warning    *)
(*         assert text subst (the %s line)                                 *)
(*   c     the condition of an if/elif                                     *)
(*   macro the macro a define/undef names, msg the text of a diagnostic    *)
(*   sc    "{syscall}" where the line has that placeholder                *)
(*   key   the {nr_...} placeholder of the line's value, x32 whether the   *)
(*         value is OR-ed with 0x40000000, lit a literal value, ref a      *)
(*         macro the value refers to                                       *)
(***************************************************************************)
SYSCALLS ==
    <<"close_range", "fchmodat2", "mount_setattr", "openat2", "quotactl_fd",
      "removexattrat", "setxattrat">>

NoCond == [op |-> "none", m |-> <<>>, n |-> 0]
Defined(ms) == [op |-> "defined", m |-> ms, n |-> 0]
NotDefined(x) == [op |-> "notdefined", m |-> <<x>>, n |-> 0]
EqMacro(a, b) == [op |-> "eqmacro", m |-> <<a, b>>, n |-> 0]
EqNum(a, n) == [op |-> "eqnum", m |-> <<a>>, n |-> n]
DefinedGe0(x) == [op |-> "definedge0", m |-> <<x>>, n |-> 0]

Blank ==
    [k |-> "text", c |-> NoCond, macro |-> "", msg |-> "", sc |-> "",
     key |-> <<>>, x32 |-> FALSE, lit |-> <<>>, ref |-> ""]

Text(t) == [Blank EXCEPT !.msg = t]
If(c) == [Blank EXCEPT !.k = "if", !.c = c]
IfSc(c) == [Blank EXCEPT !.k = "if", !.c = c, !.sc = "{syscall}"]
Elif(c) == [Blank EXCEPT !.k = "elif", !.c = c]
Else == [Blank EXCEPT !.k = "else"]
Endif == [Blank EXCEPT !.k = "endif"]
Error(t) == [Blank EXCEPT !.k = "error", !.msg = t]
Warning(t) == [Blank EXCEPT !.k = "warning", !.msg = t]
WarningSc(t) == [Blank EXCEPT !.k = "warning", !.msg = t, !.sc = "{syscall}"]
\* f'nr_{arch}': the name of the placeholder of an architecture
Nr(arch) == <<"nr_">> \o arch

DefineNr(key) ==
    [Blank EXCEPT !.k = "define", !.macro = "systemd_NR_{syscall}", !.sc = "{syscall}",
                  !.key = key]
DefineNrX32(key) == [DefineNr(key) EXCEPT !.x32 = TRUE]

DEF_TEMPLATE_A ==
    << Blank,
       IfSc(NotDefined("__IGNORE_{syscall}")) >>

DEF_TEMPLATE_B ==
    << If(Defined(<<"__aarch64__">>)),
       DefineNr(Nr(<<"arm64">>)),
       Elif(Defined(<<"__alpha__">>)),
       DefineNr(Nr(<<"alpha">>)),
       Elif(Defined(<<"__arc__", "__tilegx__">>)),
       DefineNr(Nr(<<"arc">>)),
       Elif(Defined(<<"__arm__">>)),
       DefineNr(Nr(<<"arm">>)),
       Elif(Defined(<<"__i386__">>)),
       DefineNr(Nr(<<"i386">>)),
       Elif(Defined(<<"__ia64__">>)),
       DefineNr(Nr(<<"ia64">>)),
       Elif(Defined(<<"__loongarch_lp64">>)),
       DefineNr(Nr(<<"loongarch64">>)),
       Elif(Defined(<<"__m68k__">>)),
       DefineNr(Nr(<<"m68k">>)),
       Elif(Defined(<<"_MIPS_SIM">>)),
       If(EqMacro("_MIPS_SIM", "_MIPS_SIM_ABI32")),
       DefineNr(Nr(<<"mipso32">>)),
       Elif(EqMacro("_MIPS_SIM", "_MIPS_SIM_NABI32")),
       DefineNr(Nr(<<"mips64n32">>)),
       Elif(EqMacro("_MIPS_SIM", "_MIPS_SIM_ABI64")),
       DefineNr(Nr(<<"mips64">>)),
       Else,
       Error("Unknown MIPS ABI"),
       Endif,
       Elif(Defined(<<"__hppa__">>)),
       DefineNr(Nr(<<"parisc">>)),
       Elif(Defined(<<"__powerpc__">>)),
       DefineNr(Nr(<<"powerpc">>)),
       Elif(Defined(<<"__riscv">>)),
       If(EqNum("__riscv_xlen", 32)),
       DefineNr(Nr(<<"riscv32">>)),
       Elif(EqNum("__riscv_xlen", 64)),
       DefineNr(Nr(<<"riscv64">>)),
       Else,
       Error("Unknown RISC-V ABI"),
       Endif,
       Elif(Defined(<<"__s390__">>)),
       DefineNr(Nr(<<"s390">>)),
       Elif(Defined(<<"__sparc__">>)),
       DefineNr(Nr(<<"sparc">>)),
       Elif(Defined(<<"__x86_64__">>)),
       If(Defined(<<"__ILP32__">>)),
       DefineNrX32(Nr(<<"x86_64">>)),
       Else,
       DefineNr(Nr(<<"x86_64">>)),
       Endif,
       Elif(NotDefined("missing_arch_template")),
       [Blank EXCEPT !.k = "subst"],
       Endif >>

DEF_TEMPLATE_C ==
    << Blank,
       Text("/* may be an (invalid) negative number due to libseccomp, see PR 13319 */"),
       IfSc(DefinedGe0("__NR_{syscall}")),
       IfSc(Defined(<<"systemd_NR_{syscall}">>)),
       [Blank EXCEPT !.k = "assert", !.macro = "__NR_{syscall}", !.sc = "{syscall}",
                     !.ref = "systemd_NR_{syscall}"],
       Endif,
       Else,
       IfSc(Defined(<<"__NR_{syscall}">>)),
       [Blank EXCEPT !.k = "undef", !.macro = "__NR_{syscall}", !.sc = "{syscall}"],
       Endif,
       IfSc(DefinedGe0("systemd_NR_{syscall}")),
       [Blank EXCEPT !.k = "define", !.macro = "__NR_{syscall}", !.sc = "{syscall}",
                     !.ref = "systemd_NR_{syscall}"],
       Endif,
       Endif,
       Endif >>

\* template % lines: the %s line is replaced by the lines given
RECURSIVE Percent(_, _)
Percent(template, repl) ==
    IF template = <<>> THEN <<>>
    ELSE IF Head(template).k = "subst" THEN repl \o Percent(Tail(template), repl)
    ELSE <<Head(template)>> \o Percent(Tail(template), repl)

\* the lines of a template without those that contain ' define '
RECURSIVE WithoutDefine(_)
WithoutDefine(template) ==
    IF template = <<>> THEN <<>>
    ELSE IF Head(template).k = "define" THEN WithoutDefine(Tail(template))
    ELSE <<Head(template)>> \o WithoutDefine(Tail(template))

DEF_TEMPLATE ==
    DEF_TEMPLATE_A
    \o Percent(DEF_TEMPLATE_B,
               <<WarningSc("{syscall}() syscall number is unknown for your architecture")>>)
    \o DEF_TEMPLATE_C

ArchCheckWithoutMarker ==
    << Text("/* Note: if this code looks strange, this is because it is derived from the same"),
       Text(" * template as the per-syscall blocks below. */") >>
    \o Percent(WithoutDefine(DEF_TEMPLATE_B),
               << Warning("Current architecture is missing from the template") >>)

ARCH_CHECK ==
    << Text("/* Note: if this code looks strange, this is because it is derived from the same"),
       Text(" * template as the per-syscall blocks below. */") >>
    \o Percent(WithoutDefine(DEF_TEMPLATE_B),
               << Warning("Current architecture is missing from the template"),
                  [Blank EXCEPT !.k = "define", !.macro = "missing_arch_template",
                                !.lit = <<"1">>] >>)

PREAMBLE ==
    << Text("/* SPDX-License-Identifier: LGPL-2.1-or-later"),
       Text(" * This file is generated by src/basic/missing_syscalls.py. Do not edit!"),
       Text(" *"),
       Text(" * Use 'ninja -C build update-syscall-tables' to download new syscall tables,"),
       Text(" * and 'ninja -C build update-syscall-header' to regenerate this file."),
       Text(" */"),
       Text("#pragma once"),
       Blank >>

\* the {nr_...} placeholders of a template
TemplateKeys(template) ==
    {template[i].key : i \in {j \in 1..Len(template) : template[j].key # <<>>}}

(***************************************************************************)
(* missing_syscalls.py: parse_syscall_tables and the emitter.  A file name *)
(* is a sequence whose elements are single characters or an architecture   *)
(* name taken as one element; the names of the model all end in four       *)
(* single characters.                                                      *)
(***************************************************************************)
\* filename.split('-')[-1]
LastDash(filename) ==
    LET ds == {i \in 1..Len(filename) : filename[i] = "-"} IN
    IF ds = {} THEN 0 ELSE CHOOSE i \in ds : \A j \in ds : j <= i

LastPart(filename) == SubSeq(filename, LastDash(filename) + 1, Len(filename))

\* filename.split('-')[-1][:-4]
ArchName(filename) ==
    LET part == LastPart(filename) IN SubSeq(part, 1, Len(part) - 4)

\* dict[key] = value on a dict kept in insertion order
IndexOf(d, arch) ==
    LET is == {i \in 1..Len(d) : d[i].arch = arch} IN
    IF is = {} THEN 0 ELSE CHOOSE i \in is : TRUE

SetItem(d, arch, t) ==
    IF IndexOf(d, arch) = 0 THEN Append(d, [arch |-> arch, t |-> t])
    ELSE [d EXCEPT ![IndexOf(d, arch)] = [arch |-> arch, t |-> t]]

\* t.get(syscall, default)
GetDefaultZero(t, syscall, default) == IF syscall \in DOMAIN t THEN t[syscall] ELSE 0

Get(t, syscall, default) == IF syscall \in DOMAIN t THEN t[syscall] ELSE default

\* the mappings of print_syscall_def
MappingsOfNextTable(syscall, tbls) ==
    [key \in {Nr(tbls[i].arch) : i \in 1..Len(tbls)} |->
        LET i == CHOOSE i \in 1..Len(tbls) : Nr(tbls[i].arch) = key
        IN  Get(tbls[(i % Len(tbls)) + 1].t, syscall, -1)]

MappingsOfFirstTable(syscall, tbls) ==
    [key \in {Nr(tbls[i].arch) : i \in 1..Len(tbls)} |-> Get(tbls[1].t, syscall, -1)]

Mappings(syscall, tbls) ==
    [key \in {Nr(tbls[i].arch) : i \in 1..Len(tbls)} |->
        LET i == CHOOSE i \in 1..Len(tbls) : Nr(tbls[i].arch) = key
        IN  Get(tbls[i].t, syscall, -1)]

\* str.format on one line: {syscall} and the line's {nr_...} are replaced
FormatLine(l, syscall, mappings) ==
    [l EXCEPT !.sc = IF l.sc = "{syscall}" THEN syscall ELSE l.sc,
              !.lit = IF l.key # <<>> THEN DecStr(mappings[l.key]) ELSE l.lit]

\* template.format(syscall=..., **mappings): KeyError when a placeholder has no value
Format(template, syscall, mappings) ==
    IF TemplateKeys(template) \subseteq DOMAIN mappings
    THEN [ok |-> TRUE,
          text |-> [i \in 1..Len(template) |-> FormatLine(template[i], syscall, mappings)]]
    ELSE [ok |-> FALSE, text |-> <<>>]

(***************************************************************************)
(* Specification Spec: one run of missing_syscalls.py                      *)
(***************************************************************************)
\* each specification leaves the variables of the other programs idle
ParseIdle == lines = <<>> /\ ppc = "idle" /\ table = EmptyTable

GenIdle ==
    /\ arch_files = <<>> /\ pc = "idle" /\ exc = "" /\ nfile = 0 /\ tables = <<>>
    /\ nsys = 0 /\ out = <<>>

CppIdle ==
    /\ hdr = <<>> /\ macros0 = EmptyTable /\ macros = EmptyTable /\ diag = {}
    /\ cpc = "idle" /\ nblk = 0

ManIdle == xml_files = <<>> /\ rules = EmptyTable /\ nxml = 0 /\ mpc = "idle" /\ mexc = ""

DocsIdle ==
    /\ contents0 = <<>> /\ contents = <<>> /\ nruns = 0 /\ nwrites = 0 /\ dpc = "idle"

\* the architectures of the tables the build passes, in template order
ARCHS ==
    <<"arm64", "alpha", "arc", "arm", "i386", "ia64", "loongarch64", "m68k", "mipso32",
      "mips64n32", "mips64", "parisc", "powerpc", "riscv32", "riscv64", "s390", "sparc",
      "x86_64">>

\* the number of architectures whose table varies; the others share one table
NFocus == 2

StdName(a) == <<"s", "y", "s", "-", a, ".", "t", "x", "t">>
OldName(a) == <<a, ".", "o", "l", "d">>
ForeignName == <<"s", "y", "s", "-", "x", "arm64", ".", "t", "x", "t">>

GenContents ==
    { << <<"openat2", "10">> >>,
      << <<"openat2", "20">>, <<"close_range", "7">> >>,
      << >>,
      << <<"close_range", "-1">>, <<"bogus", "10">>, <<"openat2">> >>,
      << <<"openat2", "10">>, <<"close_range", "1x">> >> }

RestContents == { << <<"openat2", "7">> >>, << <<"close_range", "010">> >> }

Reverse(s) == [i \in 1..Len(s) |-> s[Len(s) + 1 - i]]

File(name, ls) == [name |-> name, lines |-> ls]

StdFiles(cf, rest, n) ==
    [i \in 1..n |-> File(StdName(ARCHS[i]), IF i <= NFocus THEN cf[i] ELSE rest)]

ExtraFiles(extra) ==
    CASE extra = "none" -> <<>>
      [] extra = "dup" -> <<File(OldName(ARCHS[1]), << <<"openat2", "+5">> >>)>>
      [] extra = "foreign" -> <<File(ForeignName, << <<"openat2", "1_0">> >>)>>

Init ==
    /\ ParseIdle
    /\ CppIdle
    /\ ManIdle
    /\ DocsIdle
    /\ \E cf \in [1..NFocus -> GenContents], rest \in RestContents,
          n \in {NFocus, Len(ARCHS) - 1, Len(ARCHS)},
          extra \in {"none", "dup", "foreign"}, order \in {"fwd", "rev"} :
         LET files == StdFiles(cf, rest, n) \o ExtraFiles(extra)
         IN  arch_files = IF order = "fwd" THEN files ELSE Reverse(files)
    /\ pc = "parse"
    /\ exc = ""
    /\ nfile = 0
    /\ tables = <<>>
    /\ nsys = 0
    /\ out = <<>>

\* one step of the dict comprehension of parse_syscall_tables
ParseTable ==
    /\ pc = "parse"
    /\ nfile < Len(arch_files)
    /\ LET f == arch_files[nfile + 1]
           r == parse_syscall_table(f.lines)
       IN  /\ r.ok
           /\ tables' = SetItem(tables, ArchName(f.name), r.table)
    /\ nfile' = nfile + 1
    /\ UNCHANGED <<arch_files, pc, exc, nsys, out>>

\* int() raises ValueError in parse_syscall_table: the run ends
ParseTableRaise ==
    /\ pc = "parse"
    /\ nfile < Len(arch_files)
    /\ ~parse_syscall_table(arch_files[nfile + 1].lines).ok
    /\ nfile' = nfile + 1
    /\ pc' = "failed"
    /\ exc' = "ValueError"
    /\ UNCHANGED <<arch_files, tables, nsys, out>>

\* parse_syscall_tables returns; print_syscall_defs prints the preamble and ARCH_CHECK
PrintHeader ==
    /\ pc = "parse"
    /\ nfile = Len(arch_files)
    /\ out' = out \o <<PREAMBLE, ARCH_CHECK>>
    /\ pc' = "print_def"
    /\ UNCHANGED <<arch_files, exc, nfile, tables, nsys>>

\* print_syscall_def for the next symbol of the list
PrintSyscallDef ==
    /\ pc = "print_def"
    /\ nsys < Len(SYSCALLS)
    /\ LET r == Format(DEF_TEMPLATE, SYSCALLS[nsys + 1], Mappings(SYSCALLS[nsys + 1], tables))
       IN  /\ r.ok
           /\ out' = Append(out, r.text)
    /\ nsys' = nsys + 1
    /\ UNCHANGED <<arch_files, pc, exc, nfile, tables>>

\* str.format raises KeyError in print_syscall_def: the run ends
PrintSyscallDefRaise ==
    /\ pc = "print_def"
    /\ nsys < Len(SYSCALLS)
    /\ ~Format(DEF_TEMPLATE, SYSCALLS[nsys + 1], Mappings(SYSCALLS[nsys + 1], tables)).ok
    /\ pc' = "failed"
    /\ exc' = "KeyError"
    /\ UNCHANGED <<arch_files, nfile, tables, nsys, out>>

\* every symbol is printed: 'Wrote ...', exit 0
Finish ==
    /\ pc = "print_def"
    /\ nsys = Len(SYSCALLS)
    /\ pc' = "done"
    /\ UNCHANGED <<arch_files, exc, nfile, tables, nsys, out>>

Next ==
    \/ (ParseTable /\ UNCHANGED <<parseVars, cppVars, manVars, docsVars>>)
    \/ (ParseTableRaise /\ UNCHANGED <<parseVars, cppVars, manVars, docsVars>>)
    \/ (PrintHeader /\ UNCHANGED <<parseVars, cppVars, manVars, docsVars>>)
    \/ (PrintSyscallDef /\ UNCHANGED <<parseVars, cppVars, manVars, docsVars>>)
    \/ (PrintSyscallDefRaise /\ UNCHANGED <<parseVars, cppVars, manVars, docsVars>>)
    \/ (Finish /\ UNCHANGED <<parseVars, cppVars, manVars, docsVars>>)

Spec == Init /\ [][Next]_vars

Terminal == pc \in {"done", "failed"}

FileIndexes == 1..Len(arch_files)

ParsedTable(i) == parse_syscall_table(arch_files[i].lines)

AllParse == \A i \in FileIndexes : ParsedTable(i).ok

FileArch(i) == ArchName(arch_files[i].name)

\* a table is supplied for every architecture the template names
Covers == TemplateKeys(DEF_TEMPLATE) \subseteq {Nr(FileArch(i)) : i \in FileIndexes}

DistinctNames == \A i, j \in FileIndexes : i # j => FileArch(i) # FileArch(j)

LastOfName(i) == \A j \in FileIndexes : j > i => FileArch(j) # FileArch(i)

\* the block print_syscall_def wrote for the k-th symbol, and the literals of
\* the branches of a block that carry a placeholder
Block(k) == out[2 + k]

BranchLits(block, key) ==
    {block[i].lit : i \in {j \in 1..Len(block) : block[j].key = key}}

BlockIsFor(block, syscall) ==
    \A i \in 1..Len(block) : block[i].sc \in {"", syscall}

LiteralIn(k, i) ==
    /\ Len(out) >= 2 + k
    /\ BlockIsFor(Block(k), SYSCALLS[k])
    /\ BranchLits(Block(k), Nr(FileArch(i))) # {}
    /\ \A lit \in BranchLits(Block(k), Nr(FileArch(i))) :
         IsIntChars(lit) /\ IntOfChars(lit) = ParsedTable(i).table[SYSCALLS[k]]

\* C1 as stated: for any one or more table files that parse, covering the
\* template or not, every symbol's block carries, under the branch of each
\* supplied architecture, the integer parsed for the symbol from that file.
C1_AnyFiles ==
    (Terminal /\ AllParse /\ arch_files # <<>>) =>
        \A k \in 1..Len(SYSCALLS), i \in FileIndexes :
            (SYSCALLS[k] \in DOMAIN ParsedTable(i).table
             /\ Nr(FileArch(i)) \in TemplateKeys(DEF_TEMPLATE))
            => LiteralIn(k, i)

\* C1 amended: when the files parse and supply a table for every architecture
\* the template names, every symbol's block carries, under the branch of each
\* supplied architecture, the integer parsed for the symbol from the last file
\* given for that architecture.
C1_CoveringFiles ==
    (Terminal /\ AllParse /\ Covers) =>
        \A k \in 1..Len(SYSCALLS), i \in FileIndexes :
            (SYSCALLS[k] \in DOMAIN ParsedTable(i).table
             /\ Nr(FileArch(i)) \in TemplateKeys(DEF_TEMPLATE)
             /\ LastOfName(i))
            => LiteralIn(k, i)

C1_Witness ==
    /\ pc = "done"
    /\ arch_files[1] = File(StdName("arm64"), << <<"openat2", "10">> >>)
    /\ arch_files[2].name = StdName("alpha")
    /\ arch_files[2].lines[1] = <<"openat2", "20">>
    /\ BranchLits(Block(4), Nr(<<"arm64">>)) = {<<"1", "0">>}
    /\ BranchLits(Block(4), Nr(<<"alpha">>)) = {<<"2", "0">>}

\* C2: when a table is supplied for every architecture of the template, every
\* branch of a symbol's block whose architecture's table lacks the symbol
\* carries -1, and -1 is not emitted where the table has another number.
C2_AbsentIsMinusOne ==
    (Terminal /\ AllParse /\ Covers) =>
        \A k \in 1..Len(SYSCALLS), i \in FileIndexes :
            (Nr(FileArch(i)) \in TemplateKeys(DEF_TEMPLATE) /\ LastOfName(i)) =>
                /\ Len(out) >= 2 + k
                /\ BranchLits(Block(k), Nr(FileArch(i))) # {}
                /\ SYSCALLS[k] \notin DOMAIN ParsedTable(i).table
                     => BranchLits(Block(k), Nr(FileArch(i))) = {<<"-", "1">>}
                /\ (SYSCALLS[k] \in DOMAIN ParsedTable(i).table
                    /\ ParsedTable(i).table[SYSCALLS[k]] # -1)
                     => <<"-", "1">> \notin BranchLits(Block(k), Nr(FileArch(i)))

C2_Witness ==
    /\ pc = "done"
    /\ \A i \in FileIndexes : "fchmodat2" \notin DOMAIN ParsedTable(i).table
    /\ \A key \in TemplateKeys(DEF_TEMPLATE) : BranchLits(Block(2), key) = {<<"-", "1">>}
    /\ \E i \in FileIndexes : "openat2" \notin DOMAIN ParsedTable(i).table
    /\ \E key \in TemplateKeys(DEF_TEMPLATE) : BranchLits(Block(4), key) = {<<"-", "1">>}
    /\ \E key \in TemplateKeys(DEF_TEMPLATE) : BranchLits(Block(4), key) = {<<"7">>}

\* the files with a line of at least 2 tokens whose second token is not an integer
BadLine(items) == Len(items) >= 2 /\ ~IsIntChars(Spell[items[2]])

BadFiles ==
    {i \in FileIndexes :
        \E n \in 1..Len(arch_files[i].lines) : BadLine(arch_files[i].lines[n])}

FirstBad == CHOOSE i \in BadFiles : \A j \in BadFiles : i <= j

\* C5: when a line with at least 2 tokens of any file has a second token that
\* is not an integer, the run ends with the ValueError of that file: no table
\* is stored for it, no later file is read, the run never completes and
\* nothing is written to the output.
C5_BadIntegerIsFatal ==
    BadFiles # {} =>
        /\ pc # "done"
        /\ out = <<>>
        /\ nsys = 0
        /\ nfile <= FirstBad
        /\ Len(tables) < FirstBad
        /\ \A e \in 1..Len(tables) :
             \E j \in 1..(FirstBad - 1) :
                 tables[e] = [arch |-> FileArch(j), t |-> ParsedTable(j).table]
        /\ pc = "failed" => (exc = "ValueError" /\ nfile = FirstBad)
        /\ nfile = FirstBad => pc = "failed"

C5_Witness ==
    /\ pc = "failed"
    /\ exc = "ValueError"
    /\ nfile = 2
    /\ Len(tables) = 1
    /\ Len(arch_files) > 2
    /\ arch_files[2].lines = << <<"openat2", "10">>, <<"close_range", "1x">> >>
    /\ out = <<>>

\* the header as a function of the set of files, whatever their order
FileSet == {arch_files[i] : i \in FileIndexes}

ExpectedMappings(syscall) ==
    [key \in {Nr(ArchName(f.name)) : f \in FileSet} |->
        LET f == CHOOSE f \in FileSet : Nr(ArchName(f.name)) = key
        IN  IF syscall \in DOMAIN parse_syscall_table(f.lines).table
            THEN parse_syscall_table(f.lines).table[syscall] ELSE -1]

ExpectedOut ==
    IF \E f \in FileSet : ~parse_syscall_table(f.lines).ok THEN <<>>
    ELSE IF ~Covers THEN <<PREAMBLE, ARCH_CHECK>>
    ELSE <<PREAMBLE, ARCH_CHECK>>
         \o [k \in 1..Len(SYSCALLS) |->
                [i \in 1..Len(DEF_TEMPLATE) |->
                    FormatLine(DEF_TEMPLATE[i], SYSCALLS[k], ExpectedMappings(SYSCALLS[k]))]]

\* C7: with distinct derived architecture names, the text a run leaves in the
\* output is determined by the symbol list and the set of (name, contents) of
\* the files, whatever the order of the files on the command line.
C7_Deterministic ==
    (DistinctNames /\ Terminal) =>
        /\ out = ExpectedOut
        /\ pc = "done" <=> (AllParse /\ Covers)

C7_Witness ==
    /\ pc = "done"
    /\ DistinctNames
    /\ arch_files[1].name = StdName("x86_64")
    /\ arch_files[Len(arch_files)].lines = << <<"openat2", "20">>, <<"close_range", "7">> >>
    /\ arch_files[Len(arch_files) - 1].lines = << <<"openat2", "10">> >>
    /\ Len(out) = 2 + Len(SYSCALLS)

(***************************************************************************)
(* Specification SpecParse: parse_syscall_table on one table file          *)
(***************************************************************************)
MaxLines == 2

\* the lines a table file of the model is made of: 0 to 3 tokens
ParseSyms == {"openat2", "bogus"}
ParseNums == {"10", "20", "-1", "010", "+5", "1_0", "0x10", "1x"}

FileLines ==
    {<<>>} \cup {<<s>> : s \in ParseSyms} \cup {<<n>> : n \in {"10"}}
    \cup {<<s, n>> : s \in ParseSyms, n \in ParseNums}
    \cup {<<s, n, e>> : s \in {"openat2"}, n \in {"10", "1x"}, e \in {"bogus", "20"}}
    \cup {<<"10", "20">>}

FileContents == UNION {[1..k -> FileLines] : k \in 0..MaxLines}

ParseInit ==
    /\ lines \in FileContents
    /\ ppc = "call"
    /\ table = EmptyTable
    /\ GenIdle
    /\ CppIdle
    /\ ManIdle
    /\ DocsIdle

ParseReturn ==
    /\ ppc = "call"
    /\ parse_syscall_table(lines).ok
    /\ table' = parse_syscall_table(lines).table
    /\ ppc' = "returned"
    /\ UNCHANGED lines
    /\ UNCHANGED <<genVars, cppVars, manVars, docsVars>>

ParseRaise ==
    /\ ppc = "call"
    /\ ~parse_syscall_table(lines).ok
    /\ ppc' = "raised"
    /\ UNCHANGED <<lines, table>>
    /\ UNCHANGED <<genVars, cppVars, manVars, docsVars>>

ParseNext == ParseReturn \/ ParseRaise

SpecParse == ParseInit /\ [][ParseNext]_vars

\* the lines of the file that carry a pair
PairLines(ls) == {i \in 1..Len(ls) : Len(ls[i]) >= 2}

LastPairLine(ls, k) ==
    CHOOSE i \in PairLines(ls) :
        /\ ls[i][1] = k
        /\ \A j \in PairLines(ls) : ls[j][1] = k => j <= i

\* C6: when every line of the file parses, the returned mapping has exactly the
\* first tokens of the lines with at least 2 tokens as keys, each mapped to the
\* integer value of the second token of the last such line; shorter lines and
\* tokens after the second contribute nothing.
C6_ParseTable ==
    ppc = "returned" =>
        /\ DOMAIN table = {lines[i][1] : i \in PairLines(lines)}
        /\ \A k \in DOMAIN table :
             table[k] = IntOfChars(Spell[lines[LastPairLine(lines, k)][2]])

C6_Witness ==
    /\ ppc = "returned"
    /\ Len(lines) = 2
    /\ lines[1] = <<"openat2", "10", "bogus">>
    /\ lines[2] = <<"openat2", "010">>
    /\ table["openat2"] = 10

(***************************************************************************)
(* The generated header under the C preprocessor: directives are processed *)
(* in order with a stack of open conditionals; an identifier that is not   *)
(* defined evaluates to 0 in #if; assert_cc is checked with the macro      *)
(* values at its line.                                                     *)
(***************************************************************************)
\* parse_syscall_tables and print_syscall_defs as functions of their arguments
RECURSIVE ParseTables(_, _, _)
ParseTables(files, i, d) ==
    IF i > Len(files) THEN d
    ELSE ParseTables(files, i + 1,
                     SetItem(d, ArchName(files[i].name), parse_syscall_table(files[i].lines).table))

parse_syscall_tables(files) == ParseTables(files, 1, <<>>)

print_syscall_defs(syscalls, tbls) ==
    <<PREAMBLE, ARCH_CHECK>>
    \o [k \in 1..Len(syscalls) |->
           Format(DEF_TEMPLATE, syscalls[k], Mappings(syscalls[k], tbls)).text]

\* the macros whose name carries the symbol of the block
PerSyscall == {"__IGNORE_{syscall}", "__NR_{syscall}", "systemd_NR_{syscall}"}

MacroKey(name, l) == <<name, IF name \in PerSyscall THEN l.sc ELSE "">>

IsDefined(name, l, ms) == MacroKey(name, l) \in DOMAIN ms

ValueOf(name, l, ms) == IF IsDefined(name, l, ms) THEN ms[MacroKey(name, l)] ELSE 0

\* the condition of an #if / #elif line
EvalCond(l, ms) ==
    LET c == l.c IN
    CASE c.op = "defined" -> \E j \in 1..Len(c.m) : IsDefined(c.m[j], l, ms)
      [] c.op = "notdefined" -> ~IsDefined(c.m[1], l, ms)
      [] c.op = "eqmacro" -> ValueOf(c.m[1], l, ms) = ValueOf(c.m[2], l, ms)
      [] c.op = "eqnum" -> ValueOf(c.m[1], l, ms) = c.n
      [] c.op = "definedge0" -> IsDefined(c.m[1], l, ms) /\ ValueOf(c.m[1], l, ms) >= 0

X32_SYSCALL_BIT == 1073741824

\* n | 0x40000000 in two's complement
OrX32BitAdding(n) == n + X32_SYSCALL_BIT

OrX32Bit(n) ==
    IF (n \div X32_SYSCALL_BIT) % 2 = 1 THEN n ELSE n + X32_SYSCALL_BIT

\* the value a #define line gives its macro
DefineValue(l, ms) ==
    IF l.ref # "" THEN ValueOf(l.ref, l, ms)
    ELSE IF l.x32 THEN OrX32Bit(IntOfChars(l.lit))
    ELSE IntOfChars(l.lit)

Diag(l) == [k |-> l.k, msg |-> l.msg, sc |-> l.sc]

\* a line of an active group that is not a conditional directive
DoLineNoAssert(l, st) ==
    CASE l.k = "define" ->
           [st EXCEPT !.macros = Put(st.macros, MacroKey(l.macro, l), DefineValue(l, st.macros))]
      [] l.k = "undef" ->
           [st EXCEPT !.macros =
               [x \in DOMAIN st.macros \ {MacroKey(l.macro, l)} |-> st.macros[x]]]
      [] l.k \in {"warning", "error"} -> [st EXCEPT !.diag = st.diag \cup {Diag(l)}]
      [] OTHER -> st

DoLine(l, st) ==
    CASE l.k = "define" ->
           [st EXCEPT !.macros = Put(st.macros, MacroKey(l.macro, l), DefineValue(l, st.macros))]
      [] l.k = "undef" ->
           [st EXCEPT !.macros =
               [x \in DOMAIN st.macros \ {MacroKey(l.macro, l)} |-> st.macros[x]]]
      [] l.k \in {"warning", "error"} -> [st EXCEPT !.diag = st.diag \cup {Diag(l)}]
      [] l.k = "assert" ->
           IF ValueOf(l.macro, l, st.macros) = ValueOf(l.ref, l, st.macros) THEN st
           ELSE [st EXCEPT !.diag = st.diag \cup {Diag(l)}]
      [] OTHER -> st

\* the lines ls[i..] with the conditionals open in stack; a frame has par (the
\* enclosing group is active), taken (a branch was taken), cur (this branch is active)
RECURSIVE Exec(_, _, _, _)
Exec(ls, i, stack, st) ==
    IF i > Len(ls) THEN st
    ELSE
      LET l == ls[i]
          n == Len(stack)
          active == n = 0 \/ stack[n].cur
      IN
      CASE l.k = "if" ->
             LET cur == active /\ EvalCond(l, st.macros)
             IN  Exec(ls, i + 1, Append(stack, [par |-> active, taken |-> cur, cur |-> cur]), st)
        [] l.k = "elif" ->
             LET cur == stack[n].par /\ ~stack[n].taken /\ EvalCond(l, st.macros)
             IN  Exec(ls, i + 1,
                      [stack EXCEPT ![n] = [par |-> stack[n].par,
                                            taken |-> stack[n].taken \/ cur, cur |-> cur]], st)
        [] l.k = "else" ->
             Exec(ls, i + 1,
                  [stack EXCEPT ![n] = [par |-> stack[n].par, taken |-> TRUE,
                                        cur |-> stack[n].par /\ ~stack[n].taken]], st)
        [] l.k = "endif" -> Exec(ls, i + 1, SubSeq(stack, 1, n - 1), st)
        [] OTHER -> Exec(ls, i + 1, stack, IF active THEN DoLine(l, st) ELSE st)

Preprocess(ls, ms, ds) == Exec(ls, 1, <<>>, [macros |-> ms, diag |-> ds])

(***************************************************************************)
(* Specification SpecCpp: a compilation includes the generated header      *)
(***************************************************************************)
Flag(name) == (name :> 1)

MipsHost(sim) ==
    ("_MIPS_SIM" :> sim) @@ ("_MIPS_SIM_ABI32" :> 1) @@ ("_MIPS_SIM_NABI32" :> 2)
    @@ ("_MIPS_SIM_ABI64" :> 3)

RiscvHost(xlen) == ("__riscv" :> 1) @@ ("__riscv_xlen" :> xlen)

\* hosts on which a branch of the template defines systemd_NR_<symbol>
RecognisedHosts ==
    {Flag(name) : name \in {"__aarch64__", "__alpha__", "__arc__", "__tilegx__", "__arm__",
                            "__i386__", "__ia64__", "__loongarch_lp64", "__m68k__",
                            "__hppa__", "__powerpc__", "__s390__", "__sparc__",
                            "__x86_64__"}}
    \cup {MipsHost(sim) : sim \in {1, 2, 3}}
    \cup {RiscvHost(xlen) : xlen \in {32, 64}}
    \cup {Flag("__x86_64__") @@ Flag("__ILP32__")}

\* hosts with none of the template's architecture macros
UnknownHosts == {EmptyTable, Flag("__sh__"), Flag("__ILP32__")}

\* hosts of an architecture of the template with an ABI it does not know
UnknownAbiHosts == {MipsHost(4), RiscvHost(128)}

Hosts == RecognisedHosts \cup UnknownHosts \cup UnknownAbiHosts

\* the definitions of __NR_<symbol> the C library headers made before the header
LibcOpenat2 == {-1, 10, 20}
LibcOthers == {-1, 7}

SymbolSet == {SYSCALLS[k] : k \in 1..Len(SYSCALLS)}

LibcChoices ==
    {[s \in (IF o = 0 THEN {} ELSE {"openat2"}) \cup (IF r = 0 THEN {} ELSE SymbolSet \ {"openat2"})
        |-> IF s = "openat2" THEN o ELSE r] :
     o \in LibcOpenat2 \cup {0}, r \in LibcOthers \cup {0}}

IgnoreChoices == {{}, {"openat2", "fchmodat2"}}

CppContents ==
    << << <<"openat2", "10">> >>,
       << <<"openat2", "20">>, <<"close_range", "7">> >>,
       << <<"close_range", "-1">>, <<"bogus", "10">> >> >>

CppRest == << <<"openat2", "7">> >>

CppFiles(c1, c2, rest) ==
    [i \in 1..Len(ARCHS) |->
        File(StdName(ARCHS[i]),
             IF i = 1 THEN c1 ELSE IF i = Len(ARCHS) THEN c2 ELSE rest)]

CppHeaders ==
    {print_syscall_defs(SYSCALLS,
        parse_syscall_tables(CppFiles(CppContents[j], CppContents[(j % 3) + 1], CppRest))) :
        j \in 1..3}

InitialMacros(host, libc, ignored) ==
    [key \in {<<name, "">> : name \in DOMAIN host}
             \cup {<<"__NR_{syscall}", s>> : s \in DOMAIN libc}
             \cup {<<"__IGNORE_{syscall}", s>> : s \in ignored} |->
        IF key[1] = "__NR_{syscall}" THEN libc[key[2]]
        ELSE IF key[1] = "__IGNORE_{syscall}" THEN 1
        ELSE host[key[1]]]

CppInit ==
    /\ ParseIdle
    /\ GenIdle
    /\ ManIdle
    /\ DocsIdle
    /\ hdr \in CppHeaders
    /\ \E host \in Hosts, libc \in LibcChoices, ignored \in IgnoreChoices :
         macros0 = InitialMacros(host, libc, ignored)
    /\ macros = macros0
    /\ diag = {}
    /\ cpc = "arch_check"
    /\ nblk = 0

\* the preamble and ARCH_CHECK
CppArchCheck ==
    /\ cpc = "arch_check"
    /\ LET st == Preprocess(hdr[1] \o hdr[2], macros, diag)
       IN  macros' = st.macros /\ diag' = st.diag
    /\ cpc' = "block"
    /\ UNCHANGED <<hdr, macros0, nblk>>

\* the block of the next symbol
CppBlock ==
    /\ cpc = "block"
    /\ nblk < Len(hdr) - 2
    /\ LET st == Preprocess(hdr[nblk + 3], macros, diag)
       IN  macros' = st.macros /\ diag' = st.diag
    /\ nblk' = nblk + 1
    /\ UNCHANGED <<hdr, macros0, cpc>>

CppEnd ==
    /\ cpc = "block"
    /\ nblk = Len(hdr) - 2
    /\ cpc' = "done"
    /\ UNCHANGED <<hdr, macros0, macros, diag, nblk>>

CppNext ==
    \/ (CppArchCheck /\ UNCHANGED <<parseVars, genVars, manVars, docsVars>>)
    \/ (CppBlock /\ UNCHANGED <<parseVars, genVars, manVars, docsVars>>)
    \/ (CppEnd /\ UNCHANGED <<parseVars, genVars, manVars, docsVars>>)

SpecCpp == CppInit /\ [][CppNext]_vars

\* the host, the C library's definition of __NR_<symbol> and __IGNORE_<symbol>
\* before the header, and the macros of a symbol after its block
HostOf ==
    [name \in {key[1] : key \in {x \in DOMAIN macros0 : x[2] = ""}} |-> macros0[<<name, "">>]]

PreDefined(s) == <<"__NR_{syscall}", s>> \in DOMAIN macros0
Pre(s) == macros0[<<"__NR_{syscall}", s>>]
PreValid(s) == PreDefined(s) /\ Pre(s) >= 0
Ignored(s) == <<"__IGNORE_{syscall}", s>> \in DOMAIN macros0

NrDefined(s) == <<"__NR_{syscall}", s>> \in DOMAIN macros
NrOf(s) == macros[<<"__NR_{syscall}", s>>]
SysDefined(s) == <<"systemd_NR_{syscall}", s>> \in DOMAIN macros
SysOf(s) == macros[<<"systemd_NR_{syscall}", s>>]

AssertFailed(s) == \E d \in diag : d.k = "assert" /\ d.sc = s
Warned(s) == \E d \in diag : d.k = "warning" /\ d.sc = s

Processed == {SYSCALLS[k] : k \in 1..nblk}

\* what a block leaves when systemd_NR_<symbol> is not defined: __NR_<symbol>
\* stays as the C library defined it if that is non-negative, is undefined
\* otherwise, and nothing is asserted
AsIfUndefined(s) ==
    /\ NrDefined(s) <=> PreValid(s)
    /\ NrDefined(s) => NrOf(s) = Pre(s)
    /\ ~AssertFailed(s)

\* the placeholder of the branch the template selects on a recognised host
HostKey ==
    LET h == HostOf
        on(name) == name \in DOMAIN h
    IN  CASE on("__aarch64__") -> Nr(<<"arm64">>)
          [] on("__alpha__") -> Nr(<<"alpha">>)
          [] on("__arc__") \/ on("__tilegx__") -> Nr(<<"arc">>)
          [] on("__arm__") -> Nr(<<"arm">>)
          [] on("__i386__") -> Nr(<<"i386">>)
          [] on("__ia64__") -> Nr(<<"ia64">>)
          [] on("__loongarch_lp64") -> Nr(<<"loongarch64">>)
          [] on("__m68k__") -> Nr(<<"m68k">>)
          [] on("_MIPS_SIM") /\ h["_MIPS_SIM"] = 1 -> Nr(<<"mipso32">>)
          [] on("_MIPS_SIM") /\ h["_MIPS_SIM"] = 2 -> Nr(<<"mips64n32">>)
          [] on("_MIPS_SIM") /\ h["_MIPS_SIM"] = 3 -> Nr(<<"mips64">>)
          [] on("__hppa__") -> Nr(<<"parisc">>)
          [] on("__powerpc__") -> Nr(<<"powerpc">>)
          [] on("__riscv") /\ h["__riscv_xlen"] = 32 -> Nr(<<"riscv32">>)
          [] on("__riscv") /\ h["__riscv_xlen"] = 64 -> Nr(<<"riscv64">>)
          [] on("__s390__") -> Nr(<<"s390">>)
          [] on("__sparc__") -> Nr(<<"sparc">>)
          [] on("__x86_64__") -> Nr(<<"x86_64">>)
          [] OTHER -> <<>>

\* C3 as stated: on a recognised host, whatever __NR_<symbol> was before, a
\* block whose systemd_NR_<symbol> is -1 leaves what a block without
\* systemd_NR_<symbol> leaves, and never a negative __NR_<symbol>.
C3_MinusOneAsUndefined ==
    \A s \in Processed :
        (HostOf \in RecognisedHosts /\ SysDefined(s) /\ SysOf(s) = -1) =>
            /\ AsIfUndefined(s)
            /\ NrDefined(s) => NrOf(s) >= 0

\* C3 amended: on a recognised host, for a block that __IGNORE_<symbol> does not
\* disable, a literal -1 gives systemd_NR_<symbol> = -1 (also when OR-ed with
\* 0x40000000), __NR_<symbol> is never left defined negative, and with
\* systemd_NR_<symbol> = -1 the block leaves __NR_<symbol> as without
\* systemd_NR_<symbol>; but the static assertion fails when the C library
\* defined a non-negative __NR_<symbol>, where without systemd_NR_<symbol>
\* nothing is asserted.
C3_MinusOneNeverANumber ==
    \A k \in 1..nblk :
        LET s == SYSCALLS[k] IN
        (HostOf \in RecognisedHosts /\ ~Ignored(s)) =>
            /\ SysDefined(s)
            /\ NrDefined(s) => NrOf(s) >= 0
            /\ BranchLits(hdr[2 + k], HostKey) = {<<"-", "1">>} => SysOf(s) = -1
            /\ SysOf(s) = -1 =>
                 /\ NrDefined(s) <=> PreValid(s)
                 /\ NrDefined(s) => NrOf(s) = Pre(s)
                 /\ AssertFailed(s) <=> PreValid(s)

C3_Witness ==
    /\ HostOf = (Flag("__x86_64__") @@ Flag("__ILP32__"))
    /\ nblk >= 1
    /\ BranchLits(hdr[3], Nr(<<"x86_64">>)) = {<<"-", "1">>}
    /\ SysDefined("close_range") /\ SysOf("close_range") = -1
    /\ PreDefined("close_range") /\ Pre("close_range") = -1
    /\ ~NrDefined("close_range")
    /\ ~AssertFailed("close_range")

\* C4: on a recognised host, when the C library defined a non-negative
\* __NR_<symbol> and systemd_NR_<symbol> is non-negative, the static assertion
\* fails exactly when they differ; a non-negative __NR_<symbol> of the C library
\* is kept, and __NR_<symbol> takes the generated number only when the C library
\* left it undefined or negative.
C4_AssertionReconciles ==
    \A s \in Processed :
        HostOf \in RecognisedHosts =>
            /\ (PreValid(s) /\ SysDefined(s) /\ SysOf(s) >= 0)
                 => (AssertFailed(s) <=> Pre(s) # SysOf(s))
            /\ PreValid(s) => (NrDefined(s) /\ NrOf(s) = Pre(s))
            /\ (~PreValid(s) /\ SysDefined(s) /\ SysOf(s) >= 0)
                 => (NrDefined(s) /\ NrOf(s) = SysOf(s))
            /\ (NrDefined(s) /\ (~PreDefined(s) \/ NrOf(s) # Pre(s)))
                 => (~PreValid(s) /\ SysDefined(s) /\ NrOf(s) = SysOf(s))

C4_Witness ==
    /\ HostOf = Flag("__aarch64__")
    /\ cpc = "done"
    /\ PreDefined("openat2") /\ Pre("openat2") = 10
    /\ SysDefined("openat2") /\ SysOf("openat2") = 20
    /\ AssertFailed("openat2") /\ NrOf("openat2") = 10
    /\ PreDefined("close_range") /\ Pre("close_range") = 7
    /\ SysDefined("close_range") /\ SysOf("close_range") = 7
    /\ ~AssertFailed("close_range") /\ NrOf("close_range") = 7

ArchWarning ==
    [k |-> "warning", msg |-> "Current architecture is missing from the template", sc |-> ""]

\* C8 as stated: on a host with none of the template's architecture macros,
\* every symbol's block (not disabled by __IGNORE_<symbol>) issues the warning
\* that the syscall number is unknown, defines no systemd_NR_<symbol>, and leaves
\* __NR_<symbol> defined only if the C library defined it non-negative.
C8_WarningPerSymbol ==
    \A s \in Processed :
        (HostOf \in UnknownHosts /\ ~Ignored(s)) =>
            /\ Warned(s)
            /\ ~SysDefined(s)
            /\ AsIfUndefined(s)

\* C8 amended: on such a host ARCH_CHECK issues the one warning that the
\* architecture is missing from the template and defines missing_arch_template,
\* so no symbol's block issues a warning; every block defines no
\* systemd_NR_<symbol>, and a block that __IGNORE_<symbol> does not disable
\* leaves __NR_<symbol> defined only if the C library defined it non-negative.
C8_OneArchWarning ==
    (HostOf \in UnknownHosts /\ cpc # "arch_check") =>
        /\ diag = {ArchWarning}
        /\ <<"missing_arch_template", "">> \in DOMAIN macros
        /\ \A s \in Processed :
             /\ ~Warned(s)
             /\ ~SysDefined(s)
             /\ ~Ignored(s) => AsIfUndefined(s)
             /\ Ignored(s) => (NrDefined(s) <=> PreDefined(s))
                              /\ (NrDefined(s) => NrOf(s) = Pre(s))

C8_Witness ==
    /\ HostOf = Flag("__sh__")
    /\ cpc = "done"
    /\ diag = {ArchWarning}
    /\ ~Ignored("openat2") /\ PreDefined("openat2") /\ Pre("openat2") = 10
    /\ NrOf("openat2") = 10
    /\ PreDefined("close_range") /\ Pre("close_range") = -1 /\ ~NrDefined("close_range")

(***************************************************************************)
(* make-man-rules.py: add_rules and create_rules.  A parsed document has   *)
(* the tag of its root, its conditional attribute ("" when it has none),   *)
(* the refentrytitle, the manvolnum and the texts of its refname elements. *)
(***************************************************************************)
\* man(page, number): 'man/{}.{}'
man(page, number) == <<"man/", page, ".", number>>

\* an lxml element, and key == obj for a str key: an element is no str
Element(text) == [type |-> "Element", text |-> text]

PyEqualsStr(obj, key) == obj.type = "str" /\ obj.text = key

\* obj in group
InGroup(obj, group) == \E key \in DOMAIN group : PyEqualsStr(obj, key)

\* rules[conditional] of a defaultdict(dict)
GroupOf(rls, conditional) ==
    IF conditional \in DOMAIN rls THEN rls ELSE Put(rls, conditional, EmptyTable)

\* the loop of add_rules over refnames[i..]
RECURSIVE AddRefnames(_, _, _, _, _)
AddRefnames(rls, doc, conditional, target, i) ==
    IF i > Len(doc.refnames) THEN [ok |-> TRUE, exc |-> "", rules |-> rls]
    ELSE LET refname == Element(doc.refnames[i])
             alias == man(refname.text, doc.number)
         IN  IF \E c \in DOMAIN rls : InGroup(refname, rls[c])
             THEN [ok |-> FALSE, exc |-> "AssertionError", rules |-> rls]
             ELSE AddRefnames([rls EXCEPT ![conditional] = Put(rls[conditional], alias, target)],
                              doc, conditional, target, i + 1)

add_rules(rls, doc) ==
    IF doc.root # "refentry" THEN [ok |-> TRUE, exc |-> "", rules |-> rls]
    ELSE LET conditional == doc.conditional
             grouped == GroupOf(rls, conditional)
             target == man(doc.refnames[1], doc.number)
         IN  IF doc.title # doc.refnames[1]
             THEN [ok |-> FALSE, exc |-> "ValueError", rules |-> grouped]
             ELSE AddRefnames(grouped, doc, conditional, target, 1)

(***************************************************************************)
(* Specification SpecMan: create_rules over the files of the command line  *)
(***************************************************************************)
MaxXml == 3

Doc(root, conditional, title, number, refnames) ==
    [root |-> root, conditional |-> conditional, title |-> title, number |-> number,
     refnames |-> refnames]

XmlDocs ==
    { Doc("refentry", "", "systemd", "1", <<"systemd", "init">>),
      Doc("refentry", "ENABLE_X", "init", "1", <<"init">>),
      Doc("refentry", "", "init", "1", <<"init">>),
      Doc("refentry", "ENABLE_X", "halt", "8", <<"halt", "poweroff">>),
      Doc("refentry", "", "init", "8", <<"init">>),
      Doc("refentry", "", "foo", "1", <<"bar">>),
      Doc("index", "", "", "", <<>>) }

ManInit ==
    /\ ParseIdle
    /\ GenIdle
    /\ CppIdle
    /\ DocsIdle
    /\ xml_files \in UNION {[1..n -> XmlDocs] : n \in 0..MaxXml}
    /\ rules = EmptyTable
    /\ nxml = 0
    /\ mpc = "run"
    /\ mexc = ""

\* add_rules returns for the next file
AddRules ==
    /\ mpc = "run"
    /\ nxml < Len(xml_files)
    /\ add_rules(rules, xml_files[nxml + 1]).ok
    /\ rules' = add_rules(rules, xml_files[nxml + 1]).rules
    /\ nxml' = nxml + 1
    /\ UNCHANGED <<xml_files, mpc, mexc>>

\* add_rules raises: create_rules reports the file and re-raises
AddRulesRaise ==
    /\ mpc = "run"
    /\ nxml < Len(xml_files)
    /\ ~add_rules(rules, xml_files[nxml + 1]).ok
    /\ rules' = add_rules(rules, xml_files[nxml + 1]).rules
    /\ mexc' = add_rules(rules, xml_files[nxml + 1]).exc
    /\ nxml' = nxml + 1
    /\ mpc' = "raised"
    /\ UNCHANGED xml_files

CreateRulesReturn ==
    /\ mpc = "run"
    /\ nxml = Len(xml_files)
    /\ mpc' = "returned"
    /\ UNCHANGED <<xml_files, rules, nxml, mexc>>

ManNext ==
    \/ (AddRules /\ UNCHANGED <<parseVars, genVars, cppVars, docsVars>>)
    \/ (AddRulesRaise /\ UNCHANGED <<parseVars, genVars, cppVars, docsVars>>)
    \/ (CreateRulesReturn /\ UNCHANGED <<parseVars, genVars, cppVars, docsVars>>)

SpecMan == ManInit /\ [][ManNext]_vars

\* the pages a file registers, one per refname, in refname order
PagesOf(doc) ==
    IF doc.root = "refentry"
    THEN [i \in 1..Len(doc.refnames) |-> man(doc.refnames[i], doc.number)]
    ELSE <<>>

\* a page is registered twice among the files add_rules has returned for
DuplicatePage ==
    \E i, j \in 1..nxml : \E a \in 1..Len(PagesOf(xml_files[i])),
                             b \in 1..Len(PagesOf(xml_files[j])) :
        /\ <<i, a>> # <<j, b>>
        /\ PagesOf(xml_files[i])[a] = PagesOf(xml_files[j])[b]

\* C9: a refname whose page is already registered in any rule group makes
\* add_rules fail its "duplicate page name" assertion, so that while
\* create_rules runs and after it returns no page was registered twice and
\* every alias is in exactly one rule group.
C9_DuplicateRejected ==
    mpc \in {"run", "returned"} =>
        /\ ~DuplicatePage
        /\ \A c1, c2 \in DOMAIN rules :
             c1 # c2 => DOMAIN rules[c1] \cap DOMAIN rules[c2] = {}

(***************************************************************************)
(* sync-docs.py: process_file.  The text of a file is a sequence whose     *)
(* elements are single characters or a run of characters without '<' and   *)
(* '>' taken as one element ("body", "/script", a URL, ...).               *)
(***************************************************************************)
JQUERY_URL == "https://code.jquery.com/jquery-3.7.1.min.js"

\* SCRIPT_TAG.format(url): '<script src="{}"></script>'
SCRIPT_TAG(url) == <<"<", "script src=", "\"", url, "\"", ">", "<", "/script", ">">>

\* sub in text
OccursAtStart(sub, text) ==
    Len(sub) <= Len(text) /\ SubSeq(text, 1, Len(sub)) = sub

Occurs(sub, text) ==
    \E i \in 1..(Len(text) - Len(sub) + 1) : SubSeq(text, i, i + Len(sub) - 1) = sub

\* re.search("<body[^>]*>", text).end(): the end of the leftmost match, 0 for None
BodyTagStarts(text) ==
    {i \in 1..(Len(text) - 2) :
        /\ text[i] = "<"
        /\ text[i + 1] = "body"
        /\ \E j \in (i + 2)..Len(text) : text[j] = ">"}

BodyTagEnd(text) ==
    IF BodyTagStarts(text) = {} THEN 0
    ELSE LET i == CHOOSE i \in BodyTagStarts(text) : \A k \in BodyTagStarts(text) : i <= k
         IN  CHOOSE j \in (i + 2)..Len(text) :
                 text[j] = ">" /\ \A k \in (i + 2)..(j - 1) : text[k] # ">"

\* process_file on a file with the given text: the text it leaves, whether it
\* wrote the file, and the exception it raised
process_file(text) ==
    IF Occurs(SCRIPT_TAG("../nav.js"), text)
    THEN [contents |-> text, wrote |-> FALSE, exc |-> ""]
    ELSE IF BodyTagEnd(text) = 0
    THEN [contents |-> text, wrote |-> FALSE, exc |-> "AttributeError"]
    ELSE [contents |-> SubSeq(text, 1, BodyTagEnd(text))
                       \o SCRIPT_TAG(JQUERY_URL)
                       \o SCRIPT_TAG("../nav.js")
                       \o SubSeq(text, BodyTagEnd(text) + 1, Len(text)),
          wrote |-> TRUE, exc |-> ""]

(***************************************************************************)
(* Specification SpecDocs: process_file called again and again on a file   *)
(***************************************************************************)
MaxChunks == 3
MaxRuns == 3

\* the pieces the files of the model are made of
Chunks ==
    { <<"<", "body", ">">>,
      <<"<", "body", " ", "class=", "\"", "x", "\"", ">">>,
      <<"<", "body">>,
      <<"text">>,
      <<">">>,
      <<"<", "html", ">">>,
      SCRIPT_TAG("../nav.js"),
      SCRIPT_TAG(JQUERY_URL) }

RECURSIVE Concat(_)
Concat(chunks) == IF chunks = <<>> THEN <<>> ELSE Head(chunks) \o Concat(Tail(chunks))

HtmlFiles == {Concat(cs) : cs \in UNION {[1..n -> Chunks] : n \in 0..MaxChunks}}

DocsInit ==
    /\ ParseIdle
    /\ GenIdle
    /\ CppIdle
    /\ ManIdle
    /\ contents0 \in HtmlFiles
    /\ contents = contents0
    /\ nruns = 0
    /\ nwrites = 0
    /\ dpc = "run"

\* process_file returns
ProcessFile ==
    /\ dpc = "run"
    /\ nruns < MaxRuns
    /\ process_file(contents).exc = ""
    /\ contents' = process_file(contents).contents
    /\ nwrites' = IF process_file(contents).wrote THEN nwrites + 1 ELSE nwrites
    /\ nruns' = nruns + 1
    /\ UNCHANGED <<contents0, dpc>>

\* no body tag: body_tag is None and body_tag.end() raises
ProcessFileRaise ==
    /\ dpc = "run"
    /\ nruns < MaxRuns
    /\ process_file(contents).exc # ""
    /\ dpc' = "raised"
    /\ nruns' = nruns + 1
    /\ UNCHANGED <<contents0, contents, nwrites>>

DocsNext ==
    \/ (ProcessFile /\ UNCHANGED <<parseVars, genVars, cppVars, manVars>>)
    \/ (ProcessFileRaise /\ UNCHANGED <<parseVars, genVars, cppVars, manVars>>)

SpecDocs == DocsInit /\ [][DocsNext]_vars

NavTag == <<"<", "script src=", "\"", "../nav.js", "\"", ">", "<", "/script", ">">>
JQueryTag ==
    <<"<", "script src=", "\"", "https://code.jquery.com/jquery-3.7.1.min.js", "\"", ">",
      "<", "/script", ">">>

HasNavTag(text) ==
    \E i \in 1..Len(text) :
        /\ i + Len(NavTag) - 1 <= Len(text)
        /\ \A k \in 1..Len(NavTag) : text[i + k - 1] = NavTag[k]

\* text[i..j] is an opening body tag: '<', 'body', anything but '>', then '>'
IsBodyTag(text, i, j) ==
    /\ 1 <= i /\ i + 2 <= j /\ j <= Len(text)
    /\ text[i] = "<" /\ text[i + 1] = "body" /\ text[j] = ">"
    /\ \A k \in (i + 2)..(j - 1) : text[k] # ">"

HasBodyTag(text) == \E i, j \in 1..Len(text) : IsBodyTag(text, i, j)

\* new is old with the two script tags put right after the first opening body tag
InsertedAfterFirstBodyTag(old, new) ==
    \E i, j \in 1..Len(old) :
        /\ IsBodyTag(old, i, j)
        /\ \A i2, j2 \in 1..Len(old) : IsBodyTag(old, i2, j2) => i <= i2
        /\ new = SubSeq(old, 1, j) \o JQueryTag \o NavTag \o SubSeq(old, j + 1, Len(old))

\* C10: on a file with an opening body tag, any number n >= 1 of calls leaves
\* what one call leaves: the original with the jQuery tag and the ../nav.js tag
\* inserted once right after the first opening body tag and nothing else
\* changed; a file that already has the ../nav.js tag is never written.
C10_Idempotent ==
    (HasBodyTag(contents0) /\ nruns >= 1) =>
        /\ dpc = "run"
        /\ HasNavTag(contents0) => (contents = contents0 /\ nwrites = 0)
        /\ ~HasNavTag(contents0) =>
             (InsertedAfterFirstBodyTag(contents0, contents) /\ nwrites = 1)

C10_Witness ==
    /\ nruns = MaxRuns
    /\ contents0 = <<"<", "html", ">", "<", "body", " ", "class=", "\"", "x", "\"", ">",
                     "<", "body", ">">>
    /\ contents = <<"<", "html", ">", "<", "body", " ", "class=", "\"", "x", "\"", ">">>
                  \o JQueryTag \o NavTag \o <<"<", "body", ">">>
    /\ nwrites = 1

====
